---- MODULE Spec2Model ----
(***************************************************************************)
(* Model of code/inference.py as written by the notebook                   *)
(* sagemaker/17_custom_inference_script/sagemaker-notebook.ipynb:          *)
(* mean_pooling, the F.normalize step and the request handler predict_fn.  *)
(*                                                                         *)
(* Tensor elements are exact finite reals written (n/d) * 10^e, so that    *)
(* the floors 1e-9 (torch.clamp) and 1e-12 (F.normalize) and values below  *)
(* them are representable; a division by zero yields the IEEE values       *)
(* inf / nan.  Values x / ||x|| are kept as signed square roots.           *)
(***************************************************************************)
EXTENDS Integers, Sequences, FiniteSets, TLC

VARIABLES pc, data, model, sentences, input_ids, attention_mask,
          model_output, sentence_embeddings, response, error,
          sagemaker_version

vars == <<pc, data, model, sentences, input_ids, attention_mask,
          model_output, sentence_embeddings, response, error,
          sagemaker_version>>

\* ------------------------------------------------------------------ bounds
MaxB == 2
MaxL == 2
MaxD == 2
MaxCells == 4
MaxMajor == 3
MaxMinor == 100
MaxPatch == 1
MaxWords == 2
MaxSent == 2
ModelMaxLen == 3

\* ----------------------------------------------------------------- numbers
Abs(x) == IF x < 0 THEN -x ELSE x

RECURSIVE Gcd(_, _)
Gcd(a, b) == IF b = 0 THEN a ELSE Gcd(b, a % b)

RECURSIVE Pow10(_)
Pow10(k) == IF k = 0 THEN 1 ELSE 10 * Pow10(k - 1)

RECURSIVE Digits(_)
Digits(x) == IF x < 10 THEN 1 ELSE 1 + Digits(x \div 10)

Zero == [n |-> 0, d |-> 1, e |-> 0]
NaN == [n |-> 0, d |-> 0, e |-> 0]
Inf(s) == [n |-> s, d |-> 0, e |-> 0]

IsFinite(a) == a.d > 0
IsNaN(a) == a.d = 0 /\ a.n = 0
Sign(a) == IF a.n > 0 THEN 1 ELSE IF a.n < 0 THEN -1 ELSE 0

\* the canonical form of (n/d) * 10^e, d > 0: lowest terms, d coprime to 10,
\* n not a multiple of 10
RECURSIVE Canon(_, _, _)
Canon(n, d, e) ==
    IF n = 0 THEN Zero
    ELSE IF d = 1
         THEN IF n % 10 = 0 THEN Canon(n \div 10, d, e + 1)
              ELSE [n |-> n, d |-> d, e |-> e]
    ELSE LET g == Gcd(Abs(n), d)
         IN  IF g > 1 THEN Canon(n \div g, d \div g, e)
             ELSE IF d % 2 = 0 THEN Canon(n * 5, d \div 2, e - 1)
             ELSE IF d % 5 = 0 THEN Canon(n * 2, d \div 5, e - 1)
             ELSE IF n % 10 = 0 THEN Canon(n \div 10, d, e + 1)
             ELSE [n |-> n, d |-> d, e |-> e]

\* int -> float, as Tensor.float() converts each element
FromInt(i) == Canon(i, 1, 0)

Neg(a) == [a EXCEPT !.n = -a.n]

Mul(a, b) ==
    IF IsNaN(a) \/ IsNaN(b) THEN NaN
    ELSE IF ~IsFinite(a) \/ ~IsFinite(b)
         THEN IF Sign(a) * Sign(b) = 0 THEN NaN ELSE Inf(Sign(a) * Sign(b))
    ELSE Canon(a.n * b.n, a.d * b.d, a.e + b.e)

Add(a, b) ==
    IF IsNaN(a) \/ IsNaN(b) THEN NaN
    ELSE IF ~IsFinite(a)
         THEN IF ~IsFinite(b) /\ Sign(b) # Sign(a) THEN NaN ELSE a
    ELSE IF ~IsFinite(b) THEN b
    ELSE IF a.n = 0 THEN b
    ELSE IF b.n = 0 THEN a
    ELSE LET m == IF a.e < b.e THEN a.e ELSE b.e
         IN  Canon(a.n * Pow10(a.e - m) * b.d + b.n * Pow10(b.e - m) * a.d,
                   a.d * b.d, m)

Div(a, b) ==
    IF IsNaN(a) \/ IsNaN(b) THEN NaN
    ELSE IF ~IsFinite(a)
         THEN IF ~IsFinite(b) THEN NaN
              ELSE Inf(IF Sign(b) < 0 THEN -Sign(a) ELSE Sign(a))
    ELSE IF ~IsFinite(b) THEN Zero
    ELSE IF b.n = 0 THEN (IF a.n = 0 THEN NaN ELSE Inf(Sign(a)))
    ELSE Canon(a.n * b.d * Sign(b), a.d * Abs(b.n), a.e - b.e)

\* decimal order of magnitude of a finite non-zero a:
\* 10^(Mag-1) < |a| < 10^(Mag+1)
Mag(a) == Digits(Abs(a.n)) - Digits(a.d) + a.e

\* a < b
Less(a, b) ==
    IF IsNaN(a) \/ IsNaN(b) THEN FALSE
    ELSE IF ~IsFinite(a) THEN Sign(a) < 0 /\ a # b
    ELSE IF ~IsFinite(b) THEN Sign(b) > 0
    ELSE IF Sign(a) # Sign(b) THEN Sign(a) < Sign(b)
    ELSE IF Sign(a) = 0 THEN FALSE
    ELSE IF Mag(a) + 2 <= Mag(b) THEN Sign(a) > 0
    ELSE IF Mag(b) + 2 <= Mag(a) THEN Sign(a) < 0
    ELSE Sign(Add(a, Neg(b))) < 0

\* mutant of ClampMin: the floor is not applied
ClampMinNoFloor(x, m) == x

\* torch.clamp(x, min=m) on one element (nan stays nan)
ClampMin(x, m) == IF Less(x, m) THEN m ELSE x

\* ---------------------------------------------------- signed square roots
\* s * sqrt(q): the reals that x / ||x||_2 produces from rational x
ToSurd(a) == [s |-> Sign(a), q |-> Mul(a, a)]
SurdZero == ToSurd(Zero)
SurdFinite(a) == IsFinite(a.q)

SurdLess(a, b) ==
    IF a.s # b.s THEN a.s < b.s /\ ~IsNaN(a.q) /\ ~IsNaN(b.q)
    ELSE IF a.s > 0 THEN Less(a.q, b.q)
    ELSE IF a.s < 0 THEN Less(b.q, a.q)
    ELSE FALSE

SurdClampMin(x, m) == IF SurdLess(x, m) THEN m ELSE x

SurdDiv(a, b) ==
    LET q == Div(a.q, b.q)
    IN  [s |-> IF IsNaN(q) THEN 0 ELSE a.s * b.s, q |-> q]

\* ----------------------------------------------------------------- tensors
RECURSIVE SumSeq(_)
SumSeq(s) == IF Len(s) = 0 THEN Zero ELSE Add(Head(s), SumSeq(Tail(s)))

\* a function with its values computed once (TLC otherwise re-evaluates a
\* function expression at every application)
Eager(f) == f @@ <<>>

\* Tensor.size() of a 3-d / 2-d tensor
Size3(t) == <<Len(t), Len(t[1]), Len(t[1][1])>>
Size2(t) == <<Len(t), Len(t[1])>>

\* Tensor.unsqueeze(-1): (B, L) -> (B, L, 1)
Unsqueeze(m) ==
    Eager([b \in 1..Len(m) |-> Eager([l \in 1..Len(m[b]) |-> <<m[b][l]>>])])

\* mutant of Expandable: the batch dimension is never broadcast
ExpandableNoBatchBroadcast(t, size) ==
    /\ Size3(t)[1] = size[1]
    /\ \A i \in 2..3 : Size3(t)[i] = size[i] \/ Size3(t)[i] = 1

\* Tensor.expand(size) succeeds when every dimension equals the target or is 1
Expandable(t, size) == \A i \in 1..3 : Size3(t)[i] = size[i] \/ Size3(t)[i] = 1

\* Tensor.expand(size): a dimension of size 1 is repeated along the target
Expand(t, size) ==
    LET from == Size3(t)
    IN  Eager([b \in 1..size[1] |-> Eager([l \in 1..size[2] |->
            Eager([d \in 1..size[3] |->
                t[IF from[1] = 1 THEN 1 ELSE b]
                 [IF from[2] = 1 THEN 1 ELSE l]
                 [IF from[3] = 1 THEN 1 ELSE d]])])])

\* Tensor.float() of an integer tensor
Float(t) ==
    Eager([b \in 1..Len(t) |-> Eager([l \in 1..Len(t[b]) |->
        Eager([d \in 1..Len(t[b][l]) |-> FromInt(t[b][l][d])])])])

\* a * b, elementwise, equal shapes
MulT(a, b) ==
    Eager([b1 \in 1..Len(a) |-> Eager([l \in 1..Len(a[b1]) |->
        Eager([d \in 1..Len(a[b1][l]) |-> Mul(a[b1][l][d], b[b1][l][d])])])])

\* mutant of SumDim1: torch.sum(t, 2), the sum over the hidden dimension
SumDim2(t) ==
    Eager([b \in 1..Len(t) |-> Eager([l \in 1..Len(t[b]) |->
        SumSeq(Eager([d \in 1..Len(t[b][l]) |-> t[b][l][d]]))])])

\* torch.sum(t, 1): (B, L, D) -> (B, D)
SumDim1(t) ==
    Eager([b \in 1..Len(t) |-> Eager([d \in 1..Len(t[b][1]) |->
        SumSeq(Eager([l \in 1..Len(t[b]) |-> t[b][l][d]]))])])

\* torch.clamp(t, min=m) on a (B, D) tensor
ClampT(t, m) ==
    Eager([b \in 1..Len(t) |->
        Eager([d \in 1..Len(t[b]) |-> ClampMin(t[b][d], m)])])

\* a / b, elementwise, equal shapes (B, D)
DivT(a, b) ==
    Eager([b1 \in 1..Len(a) |->
        Eager([d \in 1..Len(a[b1]) |-> Div(a[b1][d], b[b1][d])])])

\* ------------------------------------------------------------ mean_pooling
PoolEps == [n |-> 1, d |-> 1, e |-> -9]

\* mutant of mean_pooling_raises: mask values outside {0,1} are rejected
mean_pooling_raises_validating(mo, mask) ==
    \/ ~Expandable(Unsqueeze(mask), Size3(mo[1]))
    \/ \E b \in 1..Len(mask) : \E l \in 1..Len(mask[b]) : mask[b][l] \notin {0, 1}

\* attention_mask.unsqueeze(-1).expand(token_embeddings.size()) raises
mean_pooling_raises(mo, mask) == ~Expandable(Unsqueeze(mask), Size3(mo[1]))

\* mutant of mean_pooling: one denominator for the whole batch,
\* input_mask_expanded.sum() in place of input_mask_expanded.sum(1)
mean_pooling_batch_denominator(mo, mask) ==
    LET token_embeddings == mo[1]
        input_mask_expanded ==
            Float(Expand(Unsqueeze(mask), Size3(token_embeddings)))
        rows == SumDim1(input_mask_expanded)
        total == Eager([b \in 1..Len(rows) |-> Eager([d \in 1..Len(rows[b]) |->
                    SumSeq(Eager([c \in 1..Len(rows) |-> rows[c][d]]))])])
    IN  DivT(SumDim1(MulT(token_embeddings, input_mask_expanded)),
             ClampT(total, PoolEps))

\* mutant of mean_pooling: the numerator sums the embeddings unmasked
mean_pooling_unmasked_sum(mo, mask) ==
    LET token_embeddings == mo[1]
        input_mask_expanded ==
            Float(Expand(Unsqueeze(mask), Size3(token_embeddings)))
    IN  DivT(SumDim1(token_embeddings),
             ClampT(SumDim1(input_mask_expanded), PoolEps))

\* mutant of mean_pooling: the masked sum is returned undivided
mean_pooling_sum_only(mo, mask) ==
    LET token_embeddings == mo[1]
        input_mask_expanded ==
            Float(Expand(Unsqueeze(mask), Size3(token_embeddings)))
    IN  SumDim1(MulT(token_embeddings, input_mask_expanded))

mean_pooling(mo, mask) ==
    LET token_embeddings == mo[1]
        input_mask_expanded ==
            Float(Expand(Unsqueeze(mask), Size3(token_embeddings)))
    IN  DivT(SumDim1(MulT(token_embeddings, input_mask_expanded)),
             ClampT(SumDim1(input_mask_expanded), PoolEps))

\* ------------------------------------------------------------- F.normalize
NormEps == [n |-> 1, d |-> 1, e |-> -12]

\* x.norm(2) of one row
Norm2(row) ==
    LET ss == SumSeq(Eager([d \in 1..Len(row) |-> Mul(row[d], row[d])]))
    IN  [s |-> IF IsNaN(ss) \/ ss.n = 0 THEN 0 ELSE 1, q |-> ss]

\* mutant of normalize: dim=0, each column divided by the column's norm
normalize_dim0(x) ==
    Eager([b \in 1..Len(x) |-> Eager([d \in 1..Len(x[b]) |->
        SurdDiv(ToSurd(x[b][d]),
                SurdClampMin(Norm2([c \in 1..Len(x) |-> x[c][d]]),
                             ToSurd(NormEps)))])])

\* F.normalize(x, p=2, dim=1): x / x.norm(2, 1, keepdim=True).clamp_min(eps)
normalize(x) ==
    Eager([b \in 1..Len(x) |->
        LET denom == SurdClampMin(Norm2(x[b]), ToSurd(NormEps))
        IN  Eager([d \in 1..Len(x[b]) |-> SurdDiv(ToSurd(x[b][d]), denom)])])

\* ------------------------------------------------------- inputs of a call
Words == {"a", "b"}
SeqsUpTo(S, n) == UNION {[1..k -> S] : k \in 0..n}
Strings == SeqsUpTo(Words, MaxWords)

StrVal(s) == [kind |-> "str", val |-> s]
ListVal(l) == [kind |-> "list", val |-> l]
DictVal(m) == [kind |-> "dict", val |-> m]
NoValue == [kind |-> "none", val |-> <<>>]

\* the text values a request can carry: a string or a non-empty list of strings
Texts ==
    {StrVal(s) : s \in Strings}
        \cup {ListVal(l) : l \in SeqsUpTo(Strings, MaxSent) \ {<<>>}}

\* request payloads: bare text, {"inputs": text}, {"text": string}
Payloads ==
    Texts \cup {DictVal([inputs |-> t]) : t \in Texts}
          \cup {DictVal([text |-> StrVal(s)]) : s \in Strings}

\* the encoders model_fn can load: hidden dimension 1..MaxD
Models == [dim : 1..MaxD]

\* the vectors a token embedding is drawn from, as floats
TokenVecs(D) ==
    << [d \in 1..D |-> FromInt(IF d = 1 THEN 1 ELSE 0)],
       [d \in 1..D |-> FromInt(IF d = 1 THEN 3 ELSE 0)],
       [d \in 1..D |-> FromInt(5)] >>
TokenVecSet(D) == {TokenVecs(D)[k] : k \in 1..Len(TokenVecs(D))}

\* attention-mask values: 0 and 1, and 2 as a value outside {0,1}
MaskVals == {0, 1, 2}

\* ------------------------------------------------------------- predict_fn
\* mutant of PopRest: the key is read and left in place, as data.get would
PopRestKeepsKey(m, key) == m

\* dict.pop(key, default): the value returned and the dict left behind
PopValue(m, key, default) == IF key \in DOMAIN m THEN m[key] ELSE default
PopRest(m, key) == [k \in DOMAIN m \ {key} |-> m[k]]

\* the exception data.pop("inputs", data) raises for a non-mapping payload
PopError(v) ==
    IF v.kind = "str" THEN "AttributeError"
    ELSE IF v.kind = "list" THEN "TypeError"
    ELSE "none"

\* tokenizer(text, ...) accepts a string or a list of strings
TokenizerAccepts(v) == v.kind \in {"str", "list"}

\* one sentence -> [CLS] words [SEP], truncated to the model's maximum length
TokensOf(s) ==
    LET keep == IF Len(s) + 2 > ModelMaxLen THEN ModelMaxLen - 2 ELSE Len(s)
    IN  <<"[CLS]">> \o SubSeq(s, 1, keep) \o <<"[SEP]">>

RECURSIVE MaxLenOf(_)
MaxLenOf(rows) ==
    IF Len(rows) = 0 THEN 0
    ELSE LET r == MaxLenOf(Tail(rows))
         IN  IF Len(Head(rows)) > r THEN Len(Head(rows)) ELSE r

\* tokenizer(sentences, padding=True, truncation=True, return_tensors='pt')
Tokenizer(v) ==
    LET texts == IF v.kind = "str" THEN <<v.val>> ELSE v.val
        rows == [b \in 1..Len(texts) |-> TokensOf(texts[b])]
        L == MaxLenOf(rows)
    IN  [input_ids |->
            [b \in 1..Len(rows) |-> [l \in 1..L |->
                IF l <= Len(rows[b]) THEN rows[b][l] ELSE "[PAD]"]],
         attention_mask |->
            [b \in 1..Len(rows) |-> [l \in 1..L |->
                IF l <= Len(rows[b]) THEN 1 ELSE 0]]]

\* model(**encoded_input)[0]: one embedding per token position, shape (B, L, D)
Encoder(m, ids) ==
    [b \in 1..Len(ids) |-> [l \in 1..Len(ids[b]) |->
        TokenVecs(m.dim)[CASE ids[b][l] = "[CLS]" -> 1
                           [] ids[b][l] = "[SEP]" -> 2
                           [] ids[b][l] = "[PAD]" -> 3
                           [] ids[b][l] = "a" -> 3
                           [] OTHER -> 2]]]

Init ==
    /\ pc = "tokenize"
    /\ data \in Payloads
    /\ model \in Models
    /\ sentences = NoValue
    /\ input_ids = <<>>
    /\ attention_mask = <<>>
    /\ model_output = <<>>
    /\ sentence_embeddings = <<>>
    /\ response = <<>>
    /\ error = "none"
    /\ sagemaker_version = <<>>

\* mutant of Tokenize: a text the tokenizer rejects is tokenized again
TokenizeRetriesOnError ==
    /\ pc = "tokenize"
    /\ IF data.kind # "dict"
       THEN /\ pc' = "failed"
            /\ error' = PopError(data)
            /\ UNCHANGED <<data, sentences, input_ids, attention_mask>>
       ELSE /\ sentences' = PopValue(data.val, "inputs", data)
            /\ data' = DictVal(PopRest(data.val, "inputs"))
            /\ IF TokenizerAccepts(sentences')
               THEN /\ input_ids' = Tokenizer(sentences').input_ids
                    /\ attention_mask' = Tokenizer(sentences').attention_mask
                    /\ pc' = "encode"
                    /\ error' = "none"
               ELSE /\ pc' = "tokenize"
                    /\ error' = "ValueError"
                    /\ UNCHANGED <<input_ids, attention_mask>>
    /\ UNCHANGED <<model, model_output, sentence_embeddings, response>>
    /\ UNCHANGED sagemaker_version

\* sentences = data.pop("inputs", data); encoded_input = tokenizer(sentences, ...)
Tokenize ==
    /\ pc = "tokenize"
    /\ IF data.kind # "dict"
       THEN /\ pc' = "failed"
            /\ error' = PopError(data)
            /\ UNCHANGED <<data, sentences, input_ids, attention_mask>>
       ELSE /\ sentences' = PopValue(data.val, "inputs", data)
            /\ data' = DictVal(PopRest(data.val, "inputs"))
            /\ IF TokenizerAccepts(sentences')
               THEN /\ input_ids' = Tokenizer(sentences').input_ids
                    /\ attention_mask' = Tokenizer(sentences').attention_mask
                    /\ pc' = "encode"
                    /\ error' = "none"
               ELSE /\ pc' = "failed"
                    /\ error' = "ValueError"
                    /\ UNCHANGED <<input_ids, attention_mask>>
    /\ UNCHANGED <<model, model_output, sentence_embeddings, response>>
    /\ UNCHANGED sagemaker_version

\* with torch.no_grad(): model_output = model(**encoded_input)
Encode ==
    /\ pc = "encode"
    /\ model_output' = <<Encoder(model, input_ids)>>
    /\ pc' = "pool"
    /\ UNCHANGED <<data, model, sentences, input_ids, attention_mask,
                   sentence_embeddings, response, error>>
    /\ UNCHANGED sagemaker_version

\* sentence_embeddings = mean_pooling(model_output, encoded_input['attention_mask'])
Pool ==
    /\ pc = "pool"
    /\ IF mean_pooling_raises(model_output, attention_mask)
       THEN /\ pc' = "failed"
            /\ error' = "RuntimeError"
            /\ UNCHANGED sentence_embeddings
       ELSE /\ sentence_embeddings' = mean_pooling(model_output, attention_mask)
            /\ pc' = "normalize"
            /\ UNCHANGED error
    /\ UNCHANGED <<data, model, sentences, input_ids, attention_mask,
                   model_output, response>>
    /\ UNCHANGED sagemaker_version

\* sentence_embeddings = F.normalize(sentence_embeddings, p=2, dim=1)
Normalize ==
    /\ pc = "normalize"
    /\ sentence_embeddings' = normalize(sentence_embeddings)
    /\ pc' = "serialize"
    /\ UNCHANGED <<data, model, sentences, input_ids, attention_mask,
                   model_output, response, error>>
    /\ UNCHANGED sagemaker_version

\* Tensor.tolist() of a 1-d tensor: the list of its elements
ToList(row) == [d \in 1..Len(row) |-> row[d]]

\* mutant of Serialize: the last row, sentence_embeddings[-1], is returned
SerializeLastRow ==
    /\ pc = "serialize"
    /\ response' = [vectors |-> ToList(sentence_embeddings[Len(sentence_embeddings)])]
    /\ pc' = "done"
    /\ UNCHANGED <<data, model, sentences, input_ids, attention_mask,
                   model_output, sentence_embeddings, error>>
    /\ UNCHANGED sagemaker_version

\* return {"vectors": sentence_embeddings[0].tolist()}
Serialize ==
    /\ pc = "serialize"
    /\ response' = [vectors |-> ToList(sentence_embeddings[1])]
    /\ pc' = "done"
    /\ UNCHANGED <<data, model, sentences, input_ids, attention_mask,
                   model_output, sentence_embeddings, error>>
    /\ UNCHANGED sagemaker_version

Next == Tokenize \/ Encode \/ Pool \/ Normalize \/ Serialize

Spec == Init /\ [][Next]_vars

\* ------------------------------------ predict_fn called again, same payload
\* a further call predict_fn(data, model_and_tokenizer) with the payload object
\* and the model of a call that returned: the locals are fresh, the caller
\* holds the response it was given
CallAgain ==
    /\ pc = "done"
    /\ pc' = "tokenize"
    /\ sentences' = NoValue
    /\ input_ids' = <<>>
    /\ attention_mask' = <<>>
    /\ model_output' = <<>>
    /\ sentence_embeddings' = <<>>
    /\ error' = "none"
    /\ UNCHANGED <<data, model, response>>
    /\ UNCHANGED sagemaker_version

NextRepeat == Next \/ CallAgain

SpecRepeat == Init /\ [][NextRepeat]_vars

\* ------------------------- mean_pooling and F.normalize on arbitrary tensors
\* the (B, L, D) float tensors and (B, L) integer masks within the bounds
EmbBatches(B, L, D) == [1..B -> [1..L -> TokenVecSet(D)]]
Masks(B, L) == [1..B -> [1..L -> MaskVals]]

InitPool ==
    /\ pc = "pool"
    /\ \E B \in 1..MaxB, L \in 1..MaxL, D \in 1..MaxD,
          mB \in 1..MaxB, mL \in 1..MaxL :
            /\ B * L <= MaxCells
            /\ mB * mL <= MaxCells
            /\ \E emb \in EmbBatches(B, L, D) : model_output = <<emb>>
            /\ attention_mask \in Masks(mB, mL)
    /\ data = NoValue
    /\ model = [dim |-> 1]
    /\ sentences = NoValue
    /\ input_ids = <<>>
    /\ sentence_embeddings = <<>>
    /\ response = <<>>
    /\ error = "none"
    /\ sagemaker_version = <<>>

NextPool == Pool \/ Normalize

SpecPool == InitPool /\ [][NextPool]_vars

\* the pooled (B, D) tensors F.normalize is applied to: integer rows times a
\* power of ten
NormInts == {-1, 0, 2}
NormScales == {0, -13}
PooledBatches(B, D) ==
    UNION {{[b \in 1..B |-> [d \in 1..D |-> Canon(t[b][d], 1, sc)]] :
                t \in [1..B -> [1..D -> NormInts]]} : sc \in NormScales}

InitNorm ==
    /\ pc = "normalize"
    /\ \E B \in 1..MaxB, D \in 1..MaxD :
            /\ B * D <= MaxCells
            /\ sentence_embeddings \in PooledBatches(B, D)
    /\ data = NoValue
    /\ model = [dim |-> 1]
    /\ sentences = NoValue
    /\ input_ids = <<>>
    /\ attention_mask = <<>>
    /\ model_output = <<>>
    /\ response = <<>>
    /\ error = "none"
    /\ sagemaker_version = <<>>

NextNorm == Normalize

SpecNorm == InitNorm /\ [][NextNorm]_vars

\* -------------------------------------------- the notebook's version guard
\* the code point of a character of a version string
CharCode(c) ==
    CASE c = "." -> 46 [] c = "0" -> 48 [] c = "1" -> 49 [] c = "2" -> 50
      [] c = "3" -> 51 [] c = "4" -> 52 [] c = "5" -> 53 [] c = "6" -> 54
      [] c = "7" -> 55 [] c = "8" -> 56 [] c = "9" -> 57

DigitChar(k) == <<"0", "1", "2", "3", "4", "5", "6", "7", "8", "9">>[k + 1]

\* str(n) of a non-negative integer, as a sequence of characters
RECURSIVE Decimal(_)
Decimal(k) ==
    IF k < 10 THEN <<DigitChar(k)>>
    ELSE Decimal(k \div 10) \o <<DigitChar(k % 10)>>

\* the __version__ string of release major.minor.patch
VersionString(v) ==
    Decimal(v[1]) \o <<".">> \o Decimal(v[2]) \o <<".">> \o Decimal(v[3])

\* a < b on Python strings: by code point at the first difference, a proper
\* prefix being smaller
RECURSIVE StrLess(_, _)
StrLess(a, b) ==
    IF Len(b) = 0 THEN FALSE
    ELSE IF Len(a) = 0 THEN TRUE
    ELSE IF CharCode(Head(a)) # CharCode(Head(b))
         THEN CharCode(Head(a)) < CharCode(Head(b))
    ELSE StrLess(Tail(a), Tail(b))

\* the literal "2.75.0"
RequiredVersion == <<"2", ".", "7", "5", ".", "0">>

\* the sagemaker releases that may be installed
InstalledVersions ==
    {VersionString(<<ma, mi, pa>>) :
        ma \in 0..MaxMajor, mi \in 0..MaxMinor, pa \in 0..MaxPatch}

InitGuard ==
    /\ pc = "guard"
    /\ sagemaker_version \in InstalledVersions
    /\ data = NoValue
    /\ model = [dim |-> 1]
    /\ sentences = NoValue
    /\ input_ids = <<>>
    /\ attention_mask = <<>>
    /\ model_output = <<>>
    /\ sentence_embeddings = <<>>
    /\ response = <<>>
    /\ error = "none"

\* assert sagemaker.__version__ >= "2.75.0"
VersionGuard ==
    /\ pc = "guard"
    /\ IF ~StrLess(sagemaker_version, RequiredVersion)
       THEN pc' = "passed" /\ error' = "none"
       ELSE pc' = "failed" /\ error' = "AssertionError"
    /\ UNCHANGED <<data, model, sentences, input_ids, attention_mask,
                   model_output, sentence_embeddings, response,
                   sagemaker_version>>

NextGuard == VersionGuard

SpecGuard == InitGuard /\ [][NextGuard]_vars

\* ===================================================================== claims
\* the inputs of the mean_pooling call, as the state holds them
Emb == model_output[1]
SameShape == Size2(attention_mask) = <<Len(Emb), Len(Emb[1])>>
Pooled == pc = "normalize" /\ SameShape
MaskSum(b) ==
    SumSeq([l \in 1..Len(attention_mask[b]) |-> FromInt(attention_mask[b][l])])
WeightedSum(b, d) ==
    SumSeq([l \in 1..Len(Emb[b]) |->
                Mul(Emb[b][l][d], FromInt(attention_mask[b][l]))])
MaxNum(a, b) == IF Less(a, b) THEN b ELSE a
AllZeroRow(b) == \A l \in 1..Len(attention_mask[b]) : attention_mask[b][l] = 0
AllOnesRow(b) == \A l \in 1..Len(attention_mask[b]) : attention_mask[b][l] = 1
Example13 == << << <<FromInt(1), FromInt(0)>>, <<FromInt(3), FromInt(0)>> >> >>

\* C1: after mean_pooling, every row b and dimension d holds
\* sum_l(embedding[b][l][d] * mask[b][l]) / max(sum_l(mask[b][l]), 1e-9), and
\* row b is what pooling row b alone (a batch of one) returns.
C1_PooledIsMaskedMeanPerRow ==
    Pooled =>
        \A b \in 1..Len(Emb) :
            /\ \A d \in 1..Len(Emb[b][1]) :
                  sentence_embeddings[b][d] =
                      Div(WeightedSum(b, d), MaxNum(MaskSum(b), Canon(1, 1, -9)))
            /\ sentence_embeddings[b] =
                  mean_pooling(<< <<Emb[b]>> >>, <<attention_mask[b]>>)[1]

\* a batch of two rows whose masks sum differently has been pooled
C1_Witness ==
    /\ Pooled
    /\ Len(Emb) = 2
    /\ MaskSum(1) # MaskSum(2)
    /\ Emb[1] # Emb[2]

\* C2: replacing the embedding of a position whose mask value is 0 by any
\* other vector leaves the pooled row unchanged; embeddings [[[1,0],[3,0]]]
\* with mask [[1,0]] pool to [[1,0]].
C2_MaskedPositionsHaveNoInfluence ==
    Pooled =>
        /\ \A b \in 1..Len(Emb) : \A l \in 1..Len(Emb[b]) :
              attention_mask[b][l] = 0 =>
                  \A v \in TokenVecSet(Len(Emb[b][l])) :
                      mean_pooling(<<[Emb EXCEPT ![b][l] = v]>>,
                                   attention_mask)[b] = sentence_embeddings[b]
        /\ (Emb = Example13 /\ attention_mask = << <<1, 0>> >>)
              => sentence_embeddings = << <<FromInt(1), FromInt(0)>> >>

\* the example batch with its second token padded has been pooled
C2_Witness ==
    /\ Pooled
    /\ Emb = Example13
    /\ attention_mask = << <<1, 0>> >>
    /\ sentence_embeddings = << <<FromInt(1), FromInt(0)>> >>

\* C3: a row whose mask is all zeros pools to the zero vector, normalization
\* leaves it the zero vector, every component is finite and no error is raised.
C3_FullyPaddedRowGivesZeros ==
    SameShape =>
        /\ pc # "failed"
        /\ pc = "normalize" =>
              \A b \in 1..Len(Emb) : AllZeroRow(b) =>
                  \A d \in 1..Len(sentence_embeddings[b]) :
                      sentence_embeddings[b][d] = Zero
        /\ pc = "serialize" =>
              \A b \in 1..Len(Emb) : AllZeroRow(b) =>
                  \A d \in 1..Len(sentence_embeddings[b]) :
                      /\ SurdFinite(sentence_embeddings[b][d])
                      /\ sentence_embeddings[b][d] = SurdZero

\* a fully padded row of non-zero embeddings has been pooled and normalized
C3_Witness ==
    /\ pc = "serialize"
    /\ SameShape
    /\ \E b \in 1..Len(Emb) :
          /\ AllZeroRow(b)
          /\ \A l \in 1..Len(Emb[b]) : \A d \in 1..Len(Emb[b][l]) :
                Emb[b][l][d] = FromInt(5)
          /\ \A d \in 1..Len(sentence_embeddings[b]) :
                sentence_embeddings[b][d] = SurdZero

\* C4 (as claimed): mean_pooling fails whenever the mask's batch_size or
\* sequence_length differs from the embedding batch's, size 1 included.
C4_FailsOnEveryShapeMismatch ==
    (pc # "pool" /\ ~SameShape) => pc = "failed"

\* the mask dimension i differs from the embeddings' and is not 1
Unbroadcastable(i) ==
    /\ Size2(attention_mask)[i] # Size3(Emb)[i]
    /\ Size2(attention_mask)[i] # 1

\* C4 (amended): mean_pooling fails exactly when a mask dimension differs
\* from the embedding batch's and is not 1; a differing mask dimension of
\* size 1 is broadcast: the result is that of the mask repeated along it.
C4_FailsUnlessBroadcastable ==
    pc # "pool" =>
        /\ pc = "failed" <=> (Unbroadcastable(1) \/ Unbroadcastable(2))
        /\ pc = "failed" => error = "RuntimeError"
        /\ pc = "normalize" =>
              sentence_embeddings =
                  mean_pooling(model_output,
                      [b \in 1..Len(Emb) |-> [l \in 1..Len(Emb[b]) |->
                          attention_mask
                              [IF Len(attention_mask) = 1 THEN 1 ELSE b]
                              [IF Len(attention_mask[1]) = 1 THEN 1 ELSE l]]])

\* a call with a mask longer than the embeddings has failed
C4_Witness ==
    /\ pc = "failed"
    /\ error = "RuntimeError"
    /\ Unbroadcastable(2)
    /\ Len(attention_mask) = Len(Emb)

\* C7: a row whose mask is all ones pools to the arithmetic mean of its L
\* token embeddings; [[[1,0],[3,0]]] with mask [[1,1]] pools to [[2,0]].
C7_AllOnesRowIsArithmeticMean ==
    Pooled =>
        /\ \A b \in 1..Len(Emb) : AllOnesRow(b) =>
              \A d \in 1..Len(Emb[b][1]) :
                  sentence_embeddings[b][d] =
                      Div(SumSeq([l \in 1..Len(Emb[b]) |-> Emb[b][l][d]]),
                          FromInt(Len(Emb[b])))
        /\ (Emb = Example13 /\ attention_mask = << <<1, 1>> >>)
              => sentence_embeddings = << <<FromInt(2), FromInt(0)>> >>

\* the example batch with an all-ones mask has been pooled
C7_Witness ==
    /\ Pooled
    /\ Emb = Example13
    /\ attention_mask = << <<1, 1>> >>
    /\ sentence_embeddings = << <<FromInt(2), FromInt(0)>> >>

HasInvalidMaskValue ==
    \E b \in 1..Len(attention_mask) : \E l \in 1..Len(attention_mask[b]) :
        attention_mask[b][l] \notin {0, 1}

\* C9 (as claimed): a mask holding a value outside {0,1} makes mean_pooling
\* fail and never yields a pooled vector.
C9_InvalidMaskFails ==
    (pc # "pool" /\ HasInvalidMaskValue) => pc = "failed"

\* C9 (amended): mean_pooling does not validate mask values: a mask of the
\* embeddings' shape holding a value outside {0,1} raises nothing and is used
\* as weights, sum_l(e * m) / max(sum_l(m), 1e-9).
C9_InvalidMaskIsUsedAsWeights ==
    (pc # "pool" /\ SameShape /\ HasInvalidMaskValue) =>
        /\ pc # "failed"
        /\ error = "none"
        /\ pc = "normalize" =>
              \A b \in 1..Len(Emb) : \A d \in 1..Len(Emb[b][1]) :
                  sentence_embeddings[b][d] =
                      Div(WeightedSum(b, d), MaxNum(MaskSum(b), Canon(1, 1, -9)))

\* a mask with a value 2 next to a 1 has been pooled
C9_Witness ==
    /\ Pooled
    /\ HasInvalidMaskValue
    /\ \E b \in 1..Len(attention_mask) :
          /\ Len(attention_mask[b]) = 2
          /\ attention_mask[b][1] = 2
          /\ attention_mask[b][2] = 1
          /\ Emb[b][1] # Emb[b][2]

\* C10: pooling a (B, L, D) batch with a (B, L) mask returns shape (B, D).
C10_PooledShapeIsBD ==
    (pc # "pool" /\ SameShape) =>
        /\ pc # "failed"
        /\ Len(sentence_embeddings) = Len(Emb)
        /\ \A b \in 1..Len(Emb) :
              Len(sentence_embeddings[b]) = Len(Emb[b][1])

\* batches with L # D in both directions have been pooled
C10_Witness ==
    /\ Pooled
    /\ Len(Emb) = 2
    /\ Len(Emb[1]) = 1
    /\ Len(Emb[1][1]) = 2
    /\ Size2(sentence_embeddings) = <<2, 2>>

\* C5 (as claimed): a payload that is a bare string and a payload that is a
\* mapping whose "inputs" holds a string or a list of strings are both
\* accepted: the tokenizer is handed the text and the call does not fail.
C5_BothPayloadShapesAccepted ==
    pc # "tokenize" =>
        /\ data.kind = "str" => (pc # "failed" /\ sentences = data)
        /\ (data.kind = "dict" /\ sentences.kind \in {"str", "list"})
              => pc # "failed"

FirstSentence ==
    IF sentences.kind = "str" THEN sentences.val ELSE sentences.val[1]
NumSentences == IF sentences.kind = "str" THEN 1 ELSE Len(sentences.val)

\* what the pipeline computes for the first sentence submitted alone
FirstSentenceAlone ==
    LET enc == Tokenizer(StrVal(FirstSentence))
    IN  normalize(mean_pooling(<<Encoder(model, enc.input_ids)>>,
                               enc.attention_mask))[1]

\* C6: a successful request returns a mapping whose only key is "vectors",
\* holding row 0 of the normalized sentence embeddings, of length the hidden
\* dimension; with n > 1 sentences it is the first sentence's vector alone.
C6_ResponseIsFirstRowOnly ==
    pc = "done" =>
        /\ DOMAIN response = {"vectors"}
        /\ Len(response.vectors) = model.dim
        /\ Len(sentence_embeddings) = NumSentences
        /\ sentence_embeddings =
              normalize(mean_pooling(model_output, attention_mask))
        /\ response.vectors = sentence_embeddings[1]
        /\ response.vectors = FirstSentenceAlone

\* a request with two sentences of different embeddings has been answered
C6_Witness ==
    /\ pc = "done"
    /\ sentences.kind = "list"
    /\ Len(sentence_embeddings) = 2
    /\ sentence_embeddings[1] # sentence_embeddings[2]
    /\ response.vectors = sentence_embeddings[1]

NonZeroRow(row) == \E d \in 1..Len(row) : row[d] # Zero
UnitNorm(srow) == SumSeq([d \in 1..Len(srow) |-> srow[d].q]) = FromInt(1)
SameDirection(srow, row) ==
    \A d \in 1..Len(row) :
        /\ srow[d].s = Sign(row[d])
        /\ \A c \in 1..Len(row) :
              Mul(srow[d].q, Mul(row[c], row[c])) =
                  Mul(srow[c].q, Mul(row[d], row[d]))
DividedByOwnNorm(srow, row) ==
    \A d \in 1..Len(row) : srow[d] = SurdDiv(ToSurd(row[d]), Norm2(row))
NormalizedRow(srow, row) ==
    /\ Len(srow) = Len(row)
    /\ DividedByOwnNorm(srow, row)
    /\ UnitNorm(srow)
    /\ SameDirection(srow, row)
NormAtLeastEps(row) == ~SurdLess(Norm2(row), ToSurd(Canon(1, 1, -12)))

\* C8 (as claimed): every non-zero pooled row is divided by its own L2 norm:
\* the normalized row has norm 1 and the direction of the pooled row.
C8_EveryNonZeroRowBecomesUnit ==
    [][(pc = "normalize" /\ pc' = "serialize") =>
          \A b \in 1..Len(sentence_embeddings) :
              NonZeroRow(sentence_embeddings[b]) =>
                  NormalizedRow(sentence_embeddings'[b], sentence_embeddings[b])
      ]_vars

\* C8 (amended): every pooled row whose L2 norm is at least 1e-12 is divided
\* by its own norm: the normalized row has norm 1 and the direction of the
\* pooled row; a row of smaller norm is divided by 1e-12 instead.
C8_RowsAboveEpsBecomeUnit ==
    [][(pc = "normalize" /\ pc' = "serialize") =>
          /\ Len(sentence_embeddings') = Len(sentence_embeddings)
          /\ \A b \in 1..Len(sentence_embeddings) :
                IF NormAtLeastEps(sentence_embeddings[b])
                THEN NormalizedRow(sentence_embeddings'[b],
                                   sentence_embeddings[b])
                ELSE \A d \in 1..Len(sentence_embeddings[b]) :
                        sentence_embeddings'[b][d] =
                            SurdDiv(ToSurd(sentence_embeddings[b][d]),
                                    ToSurd(Canon(1, 1, -12)))
      ]_vars

\* a batch of two rows, one with a negative and a positive component, has been
\* normalized to unit rows
C8_Witness ==
    /\ pc = "serialize"
    /\ Len(sentence_embeddings) = 2
    /\ \A b \in 1..2 : UnitNorm(sentence_embeddings[b])
    /\ \E b \in 1..2 : \E c, d \in 1..Len(sentence_embeddings[b]) :
          /\ sentence_embeddings[b][c].s = -1
          /\ sentence_embeddings[b][d].s = 1
    /\ sentence_embeddings[1] # sentence_embeddings[2]

\* the stages of one request, in the order of the statements of predict_fn
StageOrder ==
    {<<"tokenize", "encode">>, <<"encode", "pool">>, <<"pool", "normalize">>,
     <<"normalize", "serialize">>, <<"serialize", "done">>}
StageFailures ==
    {<<st, "failed">> :
        st \in {"tokenize", "encode", "pool", "normalize", "serialize"}}

\* C11: every step of a request moves from one stage to the next one in the
\* order tokenize, encode, pool, normalize, serialize, or ends the request in
\* failure: no stage is skipped, repeated or retried, a response exists only
\* once serialize has run, and a failed request has none.
C11_StagesRunOnceInOrder ==
    [][/\ <<pc, pc'>> \in StageOrder \cup StageFailures
       /\ pc' = "done" <=> response' # <<>>
       /\ pc' = "failed" => (response' = <<>> /\ error' # "none")
      ]_vars

\* a request has run through every stage and holds its response
C11_Witness ==
    /\ pc = "done"
    /\ DOMAIN response = {"vectors"}
    /\ sentences.kind \in {"str", "list"}
    /\ Len(model_output) = 1
    /\ Len(sentence_embeddings) = Len(input_ids)
\* C12 (as claimed): predict_fn leaves the payload unchanged, the mapping
\* still holds "inputs" after the call, and a call that follows a successful
\* one with the same payload and model succeeds with the same response.
C12_PayloadUnchangedAndCallsRepeat ==
    /\ [][data' = data]_vars
    /\ [][(pc = "tokenize" /\ response # <<>>) => pc' = "encode"]_vars
    /\ [][(pc = "serialize" /\ response # <<>>) => response' = response]_vars

\* C12 (amended): predict_fn removes the "inputs" key from the payload
\* mapping it is given (the other keys are kept); a call that follows a
\* successful one with the same payload object finds no "inputs", hands the
\* mapping itself to the tokenizer and fails with its ValueError, so no
\* second response is produced.
C12_PayloadLosesInputsAndSecondCallFails ==
    [][/\ (pc = "tokenize" /\ data.kind = "dict") =>
             /\ data'.kind = "dict"
             /\ DOMAIN data'.val = DOMAIN data.val \ {"inputs"}
             /\ \A k \in DOMAIN data'.val : data'.val[k] = data.val[k]
       /\ (pc # "tokenize" \/ data.kind # "dict") => data' = data
       /\ (pc = "tokenize" /\ response # <<>>) =>
             /\ pc' = "failed"
             /\ error' = "ValueError"
             /\ sentences' = data
             /\ response' = response
      ]_vars

\* a second call with the payload of a successful call has failed
C12_Witness ==
    /\ pc = "failed"
    /\ error = "ValueError"
    /\ response # <<>>
    /\ data = DictVal(<<>>)
    /\ sentences = data
\* the numbers major, minor, patch a version string spells
RECURSIVE ParseVersion(_, _, _)
ParseVersion(str, done, cur) ==
    IF Len(str) = 0 THEN Append(done, cur)
    ELSE IF Head(str) = "." THEN ParseVersion(Tail(str), Append(done, cur), 0)
    ELSE ParseVersion(Tail(str), done, 10 * cur + (CharCode(Head(str)) - 48))
InstalledNumbers == ParseVersion(sagemaker_version, <<>>, 0)

\* a >= b, component by component from major to patch
AtLeast(a, b) ==
    \/ a[1] > b[1]
    \/ a[1] = b[1] /\ a[2] > b[2]
    \/ a[1] = b[1] /\ a[2] = b[2] /\ a[3] >= b[3]

\* C13: the version guard passes exactly when the installed version is at
\* least 2.75.0 comparing major, minor and patch as numbers; it passes for
\* 2.100.0 and fails for 2.9.0.
C13_GuardPassesIffNumericallyAtLeast ==
    pc # "guard" =>
        (pc = "passed" <=> AtLeast(InstalledNumbers, <<2, 75, 0>>))
====
